---- MODULE Spec2Model ----
(***************************************************************************)
(* evdev-java native bridge (src/native/evdev-java.c).                     *)
(*                                                                         *)
(* Five JNI entry points, each of which borrows the caller's array,        *)
(* opens the device path read-only, issues one evdev ioctl, closes the     *)
(* descriptor, releases the array and returns.  A call is modelled as a    *)
(* thread walking through  open -> ioctl -> close -> release -> returned,  *)
(* one system call per step, so that calls of different threads            *)
(* interleave at system-call granularity.                                  *)
(***************************************************************************)
EXTENDS Integers, Sequences, FiniteSets, TLC

(* ------------------------------ bounds --------------------------------- *)
\* number of Java threads that may be inside the library at once
NThreads == 2
\* largest byte[] handed to ioctlGetDeviceName
MaxNameLen == 3
\* largest long[] handed to ioctlEVIOCGBIT, in words
MaxWords == 2
\* largest values of ioctlEVIOCGBIT's two jint arguments
MaxStart == 1
MaxStop == 9
\* largest axis index handed to ioctlEVIOCGABS
MaxAxis == 1
\* largest int[] handed to ioctlEVIOCGABS, in slots
MaxAbsLen == 6

Threads == 1 .. NThreads

(* --------------------------- the environment --------------------------- *)
\* device paths: one readable event device, one missing, one unreadable
Paths == {"/dev/input/event0", "/dev/input/missing", "/dev/input/noperm"}

\* open(2) succeeds on the readable device only
Openable(path) == path = "/dev/input/event0"

\* names the kernel may hold for the device (bytes, without the NUL)
DeviceNames == {<< >>, <<65, 66>>, <<65, 66, 67, 68>>}

\* protocol versions the kernel may report
KernelVersions == {65536, 65537}

\* what an uninitialised `int version` may hold
Garbage == {-7, 99}

\* bytes already in the caller's array before the call
Fills == {0, 7}

Min(a, b) == IF a <= b THEN a ELSE b
Max(a, b) == IF a >= b THEN a ELSE b
CeilDiv(a, b) == (a + b - 1) \div b

(* ------------------------- ioctl request codes ------------------------- *)
\* _IOC(dir, type, nr, size) of <asm-generic/ioctl.h>: an 8-bit number and a
\* 14-bit size field
IOC(dir, type, nr, size) ==
  [dir |-> dir, type |-> type, nr |-> nr % 256, size |-> size % 16384]

\* no ioctl issued yet
NoReq == [dir |-> "none", type |-> "", nr |-> 0, size |-> 0]

\* EVIOCGID: _IOR('E', 0x02, struct input_id), four 16-bit fields
EVIOCGID == IOC("read", "E", 2, 8)
\* EVIOCGVERSION: _IOR('E', 0x01, int)
EVIOCGVERSION == IOC("read", "E", 1, 4)
\* EVIOCGNAME(len): _IOC(_IOC_READ, 'E', 0x06, len)
EVIOCGNAME(len) == IOC("read", "E", 6, len)
\* EVIOCGBIT(ev, len): _IOC(_IOC_READ, 'E', 0x20 + ev, len)
EVIOCGBIT(ev, len) == IOC("read", "E", 32 + ev, len)
\* EVIOCGABS(abs): _IOR('E', 0x40 + abs, struct input_absinfo); the struct is
\* five ints in old kernel headers and six (with resolution) in newer ones
EVIOCGABS(abs, structSize) == IOC("read", "E", 64 + abs, structSize)
AbsInfoSizes == {20, 24}

(* ------------------------------ the kernel ----------------------------- *)
\* n bytes of device data (distinct from every caller fill byte)
Bytes(n) == [i \in 1 .. n |-> 1]

\* bytes in the kernel's bitmap of event type ev: BITS_TO_LONGS(max) longs;
\* EV_KEY (1) has KEY_MAX = 0x2ff bits, the other types fit one long
KernelBitmapBytes(ev) == IF ev = 1 THEN 96 ELSE 8

\* the record the evdev driver holds for request r
KernelData(r, name) ==
  CASE r.nr = 2 -> Bytes(8)
    [] r.nr = 6 -> name \o <<0>>
    [] r.nr \in 32 .. 63 -> Bytes(KernelBitmapBytes(r.nr - 32))
    [] r.nr \in 64 .. 127 -> Bytes(24)
    [] OTHER -> << >>

\* what the driver copies to user space: never more than the request's size
Copied(r, name) ==
  LET d == KernelData(r, name) IN SubSeq(d, 1, Min(r.size, Len(d)))

\* lowest descriptor number not in use (0..2 are the standard streams)
FirstFreeFd(table) ==
  CHOOSE f \in 3 .. (3 + NThreads) :
    /\ \A e \in table : e[1] # f
    /\ \A g \in 3 .. (f - 1) : \E e \in table : e[1] = g

(* ------------------------------- state --------------------------------- *)
VARIABLES
  pc,      \* pc[t]: the thread's position inside the native function
  call,    \* call[t]: the entry point and its arguments
  out,     \* out[t]: the Java array, as bytes
  buf,     \* buf[t]: the elements borrowed by Get<Type>ArrayElements
  past,    \* past[t]: bytes the ioctl wrote beyond the end of buf[t]
  fd,      \* fd[t]: the local `fd`
  retval,  \* retval[t]: the local `retval` (`version` in ioctlGetEvdevVersion)
  req,     \* req[t]: the ioctl request issued by this call
  env,     \* env[t]: what open and ioctl did in this call
  trace,   \* trace[t]: the system calls of this call, in order
  ret,     \* ret[t]: the value returned to Java
  fds      \* the process's descriptors opened by the library: <<fd, thread>>

vars == <<pc, call, out, buf, past, fd, retval, req, env, trace, ret, fds>>

ID == "ioctlGetID"
VERSION == "ioctlGetEvdevVersion"
NAME == "ioctlGetDeviceName"
BIT == "ioctlEVIOCGBIT"
ABS == "ioctlEVIOCGABS"

\* bytes per element of the array each entry point takes
ElemSize(op) ==
  CASE op = ID -> 2
    [] op = NAME -> 1
    [] op = BIT -> 8
    [] op = ABS -> 4
    [] OTHER -> 0

NoCall ==
  [op |-> "none", path |-> "", len |-> 0, fill |-> 0, start |-> 0, stop |-> 0,
   axis |-> 0, hasMaxLen |-> FALSE, maxLen |-> 0, garbage |-> 0]

NoEnv == [openOk |-> FALSE, rc |-> 0, kver |-> 0, name |-> << >>, wrote |-> 0]

\* the caller's array before the call, as bytes
InitBuf(c) == [i \in 1 .. c.len * ElemSize(c.op) |-> c.fill]

Init ==
  /\ pc = [t \in Threads |-> "idle"]
  /\ call = [t \in Threads |-> NoCall]
  /\ out = [t \in Threads |-> << >>]
  /\ buf = [t \in Threads |-> << >>]
  /\ past = [t \in Threads |-> 0]
  /\ fd = [t \in Threads |-> -1]
  /\ retval = [t \in Threads |-> 0]
  /\ req = [t \in Threads |-> NoReq]
  /\ env = [t \in Threads |-> NoEnv]
  /\ trace = [t \in Threads |-> << >>]
  /\ ret = [t \in Threads |-> 0]
  /\ fds = {}

(* ------------------------- pieces of the code -------------------------- *)
\* flags of every open(2) in the file
OpenFlags == "O_RDONLY"

\* variant: the ioctl is issued whatever open returned
NextAfterOpenUnchecked(f) == "ioctl"

\* `if ((fd = open(...)) < 0) {...} else {...}`: where the call goes next
NextAfterOpen(f) == IF f < 0 THEN "release" ELSE "ioctl"

\* variant: the failed-open branch reports success
RetvalOpenFailedAsSuccess(op) == 1

\* `retval=0;` (`version = 0;`) in the branch taken when open failed
RetvalOpenFailed(op) == 0

\* variant: the version query ignores ioctl's return value like the others
VersionAfterIoctlUnchecked(rc, v) == v

\* `if (ioctl(fd, EVIOCGVERSION, &version)) { version = 0; }`
\* rc: ioctl's return value; v: what `version` holds after the ioctl
VersionAfterIoctl(rc, v) == IF rc # 0 THEN 0 ELSE v

\* variant: every entry point reports a failed ioctl
RetvalAfterCloseChecked(op, rc, v) ==
  IF op = VERSION THEN v ELSE IF rc < 0 THEN 0 ELSE 1

\* `retval=1;` after close; ioctlGetEvdevVersion keeps `version`
RetvalAfterClose(op, rc, v) == IF op = VERSION THEN v ELSE 1

\* variant: the length check is off by one
AbsTooShortOffByOne(len) == len < 4

\* `if((*env)->GetArrayLength(env, out) < 5) return 0;`
AbsTooShort(len) == len < 5

\* variant: an explicit length, when given, replaces the array length
NameIoctlLenExplicit(c) == IF c.hasMaxLen THEN c.maxLen ELSE c.len

\* variant: one byte more than the array holds (room for the NUL)
NameIoctlLenPlusNul(c) == c.len + 1

\* the size ioctlGetDeviceName passes: GetArrayLength(env, name)
NameIoctlLen(c) == c.len

\* variant: the length is the width of the range start..stop
BitRequestRangeWidth(c) == EVIOCGBIT(c.start, c.stop - c.start)

\* variant: the length is the capacity of the array
BitRequestCapacity(c) == EVIOCGBIT(c.start, c.len * 8)

\* the request ioctlEVIOCGBIT issues: EVIOCGBIT(start, stop)
BitRequest(c) == EVIOCGBIT(c.start, c.stop)

\* the request each entry point issues
Request(c, structSize) ==
  CASE c.op = ID -> EVIOCGID
    [] c.op = VERSION -> EVIOCGVERSION
    [] c.op = NAME -> EVIOCGNAME(NameIoctlLen(c))
    [] c.op = BIT -> BitRequest(c)
    [] c.op = ABS -> EVIOCGABS(c.axis, structSize)

\* variant: the descriptor is never closed
CloseFdLeak(table, f, t) == table

\* close(fd): the descriptor leaves the table
CloseFd(table, f, t) == table \ {<<f, t>>}

\* the first n = Len(data) bytes of memory at b are overwritten; what does
\* not fit in b lands beyond it
WriteBytes(b, data) ==
  [i \in 1 .. Len(b) |-> IF i <= Len(data) THEN data[i] ELSE b[i]]

(* ------------------------------ actions -------------------------------- *)
\* a Java thread enters a native method: it is not inside one already
CanCall(t) == pc[t] \in {"idle", "returned"}

\* entry of a native method up to its open(2): the arguments are bound, the
\* array elements are borrowed and the locals are still uninitialised
Enter(t, c) ==
  /\ call' = [call EXCEPT ![t] = c]
  /\ out' = [out EXCEPT ![t] = InitBuf(c)]
  /\ buf' = [buf EXCEPT ![t] = InitBuf(c)]
  /\ past' = [past EXCEPT ![t] = 0]
  /\ fd' = [fd EXCEPT ![t] = -1]
  /\ retval' = [retval EXCEPT ![t] = c.garbage]
  /\ req' = [req EXCEPT ![t] = NoReq]
  /\ env' = [env EXCEPT ![t] = NoEnv]
  /\ trace' = [trace EXCEPT ![t] = << >>]
  /\ ret' = [ret EXCEPT ![t] = 0]
  /\ pc' = [pc EXCEPT ![t] = "open"]
  /\ UNCHANGED fds

ioctlGetID(t, I) ==
  /\ CanCall(t)
  /\ ID \in I.ops
  /\ \E path \in I.paths, fill \in I.fills :
       Enter(t, [NoCall EXCEPT !.op = ID, !.path = path, !.len = 4,
                               !.fill = fill])

ioctlGetEvdevVersion(t, I) ==
  /\ CanCall(t)
  /\ VERSION \in I.ops
  /\ \E path \in I.paths, g \in I.garbage :
       Enter(t, [NoCall EXCEPT !.op = VERSION, !.path = path, !.garbage = g])

\* maxLen: the explicit length a caller may ask for; the native method has no
\* parameter that carries it
ioctlGetDeviceName(t, I) ==
  /\ CanCall(t)
  /\ NAME \in I.ops
  /\ \E path \in I.paths, fill \in I.fills, len \in I.nameLens,
        has \in I.explicit :
       \E maxLen \in IF has THEN I.maxLens ELSE {0} :
         Enter(t, [NoCall EXCEPT !.op = NAME, !.path = path, !.len = len,
                                 !.fill = fill, !.hasMaxLen = has,
                                 !.maxLen = maxLen])

ioctlEVIOCGBIT(t, I) ==
  /\ CanCall(t)
  /\ BIT \in I.ops
  /\ \E path \in I.paths, fill \in I.fills, len \in I.words,
        start \in I.starts, stop \in I.stops :
       Enter(t, [NoCall EXCEPT !.op = BIT, !.path = path, !.len = len,
                               !.fill = fill, !.start = start, !.stop = stop])

ioctlEVIOCGABS(t, I) ==
  /\ CanCall(t)
  /\ ABS \in I.ops
  /\ \E path \in I.paths, fill \in I.fills, len \in I.absLens,
        axis \in I.axes :
       LET c == [NoCall EXCEPT !.op = ABS, !.path = path, !.len = len,
                               !.fill = fill, !.axis = axis]
       IN IF AbsTooShort(len)
          THEN \* return 0 before anything is borrowed or opened
               /\ call' = [call EXCEPT ![t] = c]
               /\ out' = [out EXCEPT ![t] = InitBuf(c)]
               /\ buf' = [buf EXCEPT ![t] = << >>]
               /\ past' = [past EXCEPT ![t] = 0]
               /\ fd' = [fd EXCEPT ![t] = -1]
               /\ retval' = [retval EXCEPT ![t] = 0]
               /\ req' = [req EXCEPT ![t] = NoReq]
               /\ env' = [env EXCEPT ![t] = NoEnv]
               /\ trace' = [trace EXCEPT ![t] = << >>]
               /\ ret' = [ret EXCEPT ![t] = 0]
               /\ pc' = [pc EXCEPT ![t] = "returned"]
               /\ UNCHANGED fds
          ELSE Enter(t, c)

\* fd = open(device_name_str, O_RDONLY)
Open(t) ==
  /\ pc[t] = "open"
  /\ LET f == IF Openable(call[t].path) THEN FirstFreeFd(fds) ELSE -1
     IN /\ fd' = [fd EXCEPT ![t] = f]
        /\ fds' = IF f >= 0 THEN fds \cup {<<f, t>>} ELSE fds
        /\ env' = [env EXCEPT ![t].openOk = f >= 0]
        /\ trace' = [trace EXCEPT ![t] =
                       Append(@, [sys |-> "open", fd |-> f, arg |-> OpenFlags])]
        /\ retval' = [retval EXCEPT ![t] =
                        IF f < 0 THEN RetvalOpenFailed(call[t].op) ELSE @]
        /\ pc' = [pc EXCEPT ![t] = NextAfterOpen(f)]
  /\ UNCHANGED <<call, out, buf, past, req, ret>>

\* ioctl(fd, request, pointer): the driver either rejects the request or
\* copies its record, cut to the request's size, to the pointer
Ioctl(t, I) ==
  /\ pc[t] = "ioctl"
  /\ \E ok \in BOOLEAN, name \in I.names, kver \in I.kvers,
        structSize \in I.absSizes :
       LET c == call[t]
           r == Request(c, structSize)
           good == ok /\ <<fd[t], t>> \in fds
           data == IF good THEN Copied(r, IF c.op = NAME THEN name ELSE << >>)
                   ELSE << >>
           rc == IF ~good THEN -1
                 ELSE IF c.op \in {NAME, BIT} THEN Len(data) ELSE 0
       IN /\ req' = [req EXCEPT ![t] = r]
          /\ buf' = [buf EXCEPT ![t] = WriteBytes(@, data)]
          /\ past' = [past EXCEPT ![t] = Max(0, Len(data) - Len(buf[t]))]
          /\ env' = [env EXCEPT ![t].rc = rc,
                                ![t].wrote = Len(data),
                                ![t].name = IF good /\ c.op = NAME
                                            THEN name ELSE << >>,
                                ![t].kver = IF good /\ c.op = VERSION
                                            THEN kver ELSE 0]
          /\ retval' = [retval EXCEPT ![t] =
                          IF c.op = VERSION
                          THEN VersionAfterIoctl(rc, IF good THEN kver ELSE @)
                          ELSE @]
          /\ trace' = [trace EXCEPT ![t] =
                         Append(@, [sys |-> "ioctl", fd |-> fd[t], arg |-> ""])]
          /\ pc' = [pc EXCEPT ![t] = "close"]
  /\ UNCHANGED <<call, out, fd, ret, fds>>

\* close(fd); retval=1;
Close(t) ==
  /\ pc[t] = "close"
  /\ fds' = CloseFd(fds, fd[t], t)
  /\ trace' = [trace EXCEPT ![t] =
                 Append(@, [sys |-> "close", fd |-> fd[t], arg |-> ""])]
  /\ retval' = [retval EXCEPT ![t] =
                  RetvalAfterClose(call[t].op, env[t].rc, @)]
  /\ pc' = [pc EXCEPT ![t] = "release"]
  /\ UNCHANGED <<call, out, buf, past, fd, req, env, ret>>

\* Release<Type>ArrayElements(env, out, elems, 0) copies the elements back
\* into the Java array; then `return retval;`
Release(t) ==
  /\ pc[t] = "release"
  /\ out' = [out EXCEPT ![t] = buf[t]]
  /\ ret' = [ret EXCEPT ![t] = retval[t]]
  /\ pc' = [pc EXCEPT ![t] = "returned"]
  /\ UNCHANGED <<call, buf, past, fd, retval, req, env, trace, fds>>

(* --------------------------- specifications ---------------------------- *)
\* inputs of a single caller, wide enough for every buffer-size case
Inputs ==
  [ops |-> {ID, VERSION, NAME, BIT, ABS}, paths |-> Paths, fills |-> Fills, garbage |-> Garbage,
   nameLens |-> 0 .. MaxNameLen, explicit |-> BOOLEAN,
   maxLens |-> 1 .. MaxNameLen, words |-> 0 .. MaxWords,
   starts |-> 0 .. MaxStart, stops |-> 0 .. MaxStop,
   absLens |-> 0 .. MaxAbsLen, axes |-> 0 .. MaxAxis,
   names |-> DeviceNames, kvers |-> KernelVersions, absSizes |-> AbsInfoSizes]

\* inputs of concurrent callers: one argument tuple per entry point
SmallInputs ==
  [ops |-> {ID, VERSION, NAME, BIT, ABS},
   paths |-> {"/dev/input/event0", "/dev/input/missing"}, fills |-> {7},
   garbage |-> {99}, nameLens |-> {2}, explicit |-> {FALSE}, maxLens |-> {1},
   words |-> {1}, starts |-> {0}, stops |-> {8}, absLens |-> {4, 5},
   axes |-> {0}, names |-> {<<65, 66>>}, kvers |-> {65537}, absSizes |-> {24}]

Step(t, I) ==
  \/ ioctlGetID(t, I)
  \/ ioctlGetEvdevVersion(t, I)
  \/ ioctlGetDeviceName(t, I)
  \/ ioctlEVIOCGBIT(t, I)
  \/ ioctlEVIOCGABS(t, I)
  \/ Open(t)
  \/ Ioctl(t, I)
  \/ Close(t)
  \/ Release(t)

\* one caller at a time, all argument values
Next == Step(1, Inputs)

Spec == Init /\ [][Next]_vars

\* thread 1 uses every entry point; the threads running beside it use the
\* identity and version queries
ConcInputs(t) ==
  IF t = 1 THEN SmallInputs ELSE [SmallInputs EXCEPT !.ops = {ID, VERSION}]

\* NThreads callers interleaved at system-call granularity
NextConc == \E t \in Threads : Step(t, ConcInputs(t))

SpecConc == Init /\ [][NextConc]_vars

(* ------------------------------ properties ---------------------------- *)
\* the descriptors thread t holds
Held(t) == {e \in fds : e[2] = t}

\* thread t has returned from a call
Returned(t) == pc[t] = "returned"

\* the names of the system calls of a trace
SysNames(tr) == [i \in 1 .. Len(tr) |-> tr[i].sys]

\* b consists of zero bytes only
AllZero(b) == \A i \in 1 .. Len(b) : b[i] = 0

\* C1: whenever a thread is outside the native methods it holds no descriptor,
\* whatever open and ioctl did; with every thread outside, no descriptor is
\* open at all.
C1_NoDescriptorLeft ==
  /\ \A t \in Threads : CanCall(t) => Held(t) = {}
  /\ (\A t \in Threads : CanCall(t)) => fds = {}

\* a call whose open succeeded and whose ioctl failed has returned while
\* another thread is between its open and its close
C1_Witness ==
  \E t, u \in Threads :
    /\ t # u
    /\ Returned(t) /\ env[t].openOk /\ env[t].rc < 0
    /\ Held(u) # {}

\* C2: a call whose open failed returns 0 (false), has issued no ioctl, and
\* leaves the Java array as it was before the call.
C2_OpenFailure ==
  \A t \in Threads :
    (Returned(t) /\ trace[t] # << >> /\ ~env[t].openOk)
      => /\ ret[t] = 0
         /\ req[t] = NoReq
         /\ SysNames(trace[t]) = <<"open">>
         /\ out[t] = InitBuf(call[t])

\* the capability query on the unreadable path has returned
C2_Witness ==
  \E t \in Threads :
    /\ Returned(t) /\ call[t].op = BIT /\ call[t].path = "/dev/input/noperm"
    /\ call[t].len > 0 /\ call[t].fill = 7
    /\ trace[t] # << >> /\ ~env[t].openOk

\* C3: ioctlEVIOCGABS with fewer than 5 slots returns false at once: no open,
\* ioctl or close, array unchanged; with 5 or more slots its first system call
\* is the open of the path.
C3_AbsLengthCheck ==
  \A t \in Threads :
    call[t].op = ABS =>
      /\ call[t].len < 5 =>
           /\ Returned(t) /\ ret[t] = 0
           /\ trace[t] = << >> /\ req[t] = NoReq
           /\ out[t] = InitBuf(call[t])
      /\ (call[t].len >= 5 /\ Returned(t)) =>
           /\ trace[t] # << >>
           /\ trace[t][1].sys = "open"

\* a call with 4 slots on the readable device has returned
C3_Witness ==
  \E t \in Threads :
    /\ call[t].op = ABS /\ Returned(t)
    /\ call[t].len = 4 /\ call[t].path = "/dev/input/event0"

\* C4: ioctlGetEvdevVersion returns 0 if open failed or the ioctl failed, and
\* the version the kernel reported otherwise.
C4_VersionResult ==
  \A t \in Threads :
    (call[t].op = VERSION /\ Returned(t))
      => ret[t] = IF env[t].openOk /\ env[t].rc = 0 THEN env[t].kver ELSE 0

\* a version query returned the kernel's value
C4_Witness ==
  \E t \in Threads :
    /\ call[t].op = VERSION /\ Returned(t)
    /\ env[t].openOk /\ env[t].rc = 0 /\ ret[t] = 65537
    /\ call[t].garbage # 65537

\* C5: for the four array-filling entry points (ioctlEVIOCGABS with at least
\* 5 slots) the status returned is 1 exactly when open succeeded, whatever
\* the ioctl did; ioctlGetEvdevVersion returns 0 when its ioctl failed.
C5_StatusFollowsOpen ==
  \A t \in Threads :
    Returned(t) =>
      /\ (call[t].op \in {ID, NAME, BIT}
            \/ (call[t].op = ABS /\ call[t].len >= 5))
           => ret[t] = IF env[t].openOk THEN 1 ELSE 0
      /\ (call[t].op = VERSION /\ env[t].openOk /\ env[t].rc # 0)
           => ret[t] = 0

\* an identity query whose ioctl failed returned success
C5_Witness ==
  \E t \in Threads :
    /\ call[t].op = ID /\ Returned(t)
    /\ env[t].openOk /\ env[t].rc < 0 /\ ret[t] = 1

C7_NameTruncated ==
  \A t \in Threads :
    (call[t].op = NAME /\ req[t] # NoReq) =>
      LET full == env[t].name \o <<0>>
          n == env[t].wrote
          want == [i \in 1 .. call[t].len |->
                     IF i <= n THEN full[i] ELSE call[t].fill]
      IN /\ req[t].size <= call[t].len
         /\ n <= call[t].len
         /\ past[t] = 0
         /\ env[t].rc >= 0 => n = Min(Len(full), call[t].len)
         /\ buf[t] = want
         /\ Returned(t) => out[t] = want

\* a name longer than the array came back cut to the array length
C7_Witness ==
  \E t \in Threads :
    /\ call[t].op = NAME /\ Returned(t)
    /\ Len(env[t].name) > call[t].len
    /\ call[t].len = 3 /\ out[t] = <<65, 66, 67>>

\* C8 as stated: with start <= stop, an array of ceil((stop-start)/64) words
\* is never written past.
C8_RangeSizedBufferSafe ==
  \A t \in Threads :
    (/\ call[t].op = BIT /\ req[t] # NoReq
     /\ call[t].start <= call[t].stop
     /\ call[t].len >= CeilDiv(call[t].stop - call[t].start, 64))
      => past[t] = 0

\* C8, amended: the request names the one event type `start` and carries
\* `stop` as the byte length; at most stop bytes are written, and an array of
\* at least ceil(stop/8) words is never written past.
C8_ByteLengthBufferSafe ==
  \A t \in Threads :
    (call[t].op = BIT /\ req[t] # NoReq) =>
      /\ req[t].nr = 32 + call[t].start
      /\ req[t].size = call[t].stop
      /\ env[t].wrote <= call[t].stop
      /\ call[t].len >= CeilDiv(call[t].stop, 8) => past[t] = 0

\* event type 1 with length 9: nine bytes written into a two-word array
C8_Witness ==
  \E t \in Threads :
    /\ call[t].op = BIT /\ Returned(t)
    /\ call[t].start = 1 /\ call[t].stop = 9 /\ call[t].len = 2
    /\ env[t].wrote = 9 /\ past[t] = 0

\* C9: ioctlEVIOCGBIT with start = 0 and stop = 0 on a path that opens
\* returns 1 and leaves the array all-zero or as it was.
C9_EmptyRange ==
  \A t \in Threads :
    (/\ call[t].op = BIT /\ Returned(t)
     /\ call[t].start = 0 /\ call[t].stop = 0 /\ env[t].openOk)
      => /\ ret[t] = 1
         /\ (out[t] = InitBuf(call[t]) \/ AllZero(out[t]))

\* the degenerate query succeeded in the kernel on a non-zero array
C9_Witness ==
  \E t \in Threads :
    /\ call[t].op = BIT /\ Returned(t)
    /\ call[t].start = 0 /\ call[t].stop = 0 /\ env[t].openOk
    /\ env[t].rc >= 0 /\ call[t].len > 0 /\ call[t].fill = 7

\* C10: the system calls of a call are a prefix of open, ioctl, close; a call
\* whose open succeeded has, on return, made exactly one read-only open, one
\* ioctl and one close, all on the descriptor open returned, whatever the
\* ioctl did; a call whose open failed has made the open and nothing else.
C10_SyscallOrder ==
  \A t \in Threads :
    LET tr == trace[t] IN
    /\ \E k \in 0 .. 3 : SysNames(tr) = SubSeq(<<"open", "ioctl", "close">>, 1, k)
    /\ (Returned(t) /\ env[t].openOk) =>
         /\ SysNames(tr) = <<"open", "ioctl", "close">>
         /\ tr[1].arg = "O_RDONLY" /\ tr[1].fd >= 0
         /\ tr[2].fd = tr[1].fd /\ tr[3].fd = tr[1].fd
    /\ (Returned(t) /\ ~env[t].openOk /\ tr # << >>) =>
         /\ SysNames(tr) = <<"open">>
         /\ tr[1].fd < 0

\* a call whose ioctl failed has returned after its close, while another
\* thread's call is under way
C10_Witness ==
  \E t, u \in Threads :
    /\ t # u /\ Returned(t) /\ env[t].openOk /\ env[t].rc < 0
    /\ Len(trace[t]) = 3 /\ pc[u] = "close"

====
